---- MODULE Spec2Model ----
(***************************************************************************)
(* A model of GoogleDriveDownloader (src/downloader.py): the folder sync   *)
(* driver download_folder, the folder resolver get_folder_id and the file  *)
(* materializer download_file, with the local filesystem and the remote    *)
(* Drive service as environment.                                           *)
(*                                                                         *)
(* Strings that the code inspects (paths, names, identifiers, typed input) *)
(* are sequences of one-character strings.  A mime type is a pair          *)
(* <<head, tail>>: head is the text up to and including the last '.' or    *)
(* '/' of the type, so that startswith('application/vnd.google-apps.') is  *)
(* a test on head.                                                         *)
(***************************************************************************)
EXTENDS Integers, Sequences, FiniteSets, TLC

VARIABLES
    pc,             \* position of the single thread of control
    service,        \* self.service is set (authenticate() has run)
    identifier,     \* argument folder_identifier of download_folder
    local_path,     \* argument local_path of download_folder
    dirs,           \* filesystem: the directories that exist
    disk,           \* filesystem: path -> content of every regular file
    folders,        \* get_folder_id: local `folders` (ids of the matches)
    shown,          \* get_folder_id: the candidates printed at lines 103-105
    last_input,     \* get_folder_id: the line input() returned last
    folder_id,      \* download_folder: local `folder_id`
    files,          \* download_folder: local `files` (the listing)
    i,              \* download_folder: loop position, 1-based
    success_count,  \* download_folder: local `success_count`
    file_name,      \* download_file: parameter/local `file_name`
    download_path,  \* download_file: parameter/local `download_path`
    mime_type,      \* download_file: local `mime_type`
    request,        \* download_file: local `request`
    fh,             \* download_file: the BytesIO buffer
    ret,            \* download_file: the value it returned
    outcome,        \* download_file: the path it left by (its last message)
    invoked,        \* ids passed to download_file so far, in call order
    outcomes,       \* the outcome of every finished download_file call
    lookups,        \* number of name-lookup requests (files.list by name)
    listings,       \* number of child-listing requests
    listed,         \* the folder id the listing request asked about
    issued,         \* kinds of per-file requests issued to the service
    exit,           \* how download_folder left: which return / raise
    retval          \* the value download_folder returned

vars == << pc, service, identifier, local_path, dirs, disk, folders, shown,
           last_input, folder_id, files, i, success_count, file_name,
           download_path, mime_type, request, fh, ret, outcome, invoked,
           outcomes, lookups, listings, listed, issued, exit, retval >>

----------------------------------------------------------------------------
(* Bounds of the model.                                                    *)

MaxFiles == 2       \* longest listing the service returns
MaxMatches == 2     \* most folders sharing one name
MaxInputLen == 2    \* longest line typed at the selection prompt

----------------------------------------------------------------------------
(* Text.                                                                   *)

Rep(c, n) == [k \in 1..n |-> c]

Digits == <<"0", "1", "2", "3", "4", "5", "6", "7", "8", "9">>

DigitChars == {Digits[k] : k \in 1..10}

DigitVal(c) == (CHOOSE k \in 1..10 : Digits[k] = c) - 1

AlnumChars == DigitChars \cup {"a", "b", "d", "c", "o", "p", "r", "x", "F", "R"}

\* str.isalnum(): every character alphanumeric and at least one character
IsAlnum(s) == Len(s) >= 1 /\ \A k \in 1..Len(s) : s[k] \in AlnumChars

StartsWith(s, pre) ==
    Len(s) >= Len(pre) /\ SubSeq(s, 1, Len(pre)) = pre

EndsWith(s, suf) ==
    Len(s) >= Len(suf) /\ SubSeq(s, Len(s) - Len(suf) + 1, Len(s)) = suf

\* str.rfind('/') + 1: the 1-based position of the last '/', 0 when none
LastSlash(p) ==
    LET at == {k \in 1..Len(p) : p[k] = "/"}
    IN  IF at = {} THEN 0 ELSE CHOOSE k \in at : \A j \in at : j <= k

RECURSIVE RStripSlash(_)
RStripSlash(p) ==
    IF Len(p) > 0 /\ p[Len(p)] = "/" THEN RStripSlash(SubSeq(p, 1, Len(p) - 1))
    ELSE p

\* posixpath.dirname
Dirname(p) ==
    LET head == SubSeq(p, 1, LastSlash(p))
    IN  IF head # <<>> /\ head # Rep("/", Len(head)) THEN RStripSlash(head)
        ELSE head

\* posixpath.join(a, b)
Join(a, b) ==
    IF StartsWith(b, <<"/">>) THEN b
    ELSE IF a = <<>> \/ EndsWith(a, <<"/">>) THEN a \o b
    ELSE a \o <<"/">> \o b

----------------------------------------------------------------------------
(* download_folder: the shape test of line 239.                            *)

CanonLen == 33

\* a variant that leaves out the isalnum() test
LooksLikeIdLenOnly(s) == Len(s) = CanonLen

LooksLikeId(s) == Len(s) = CanonLen /\ IsAlnum(s)

----------------------------------------------------------------------------
(* get_folder_id: the selection prompt.                                    *)

InputChars == {"0", "1", "2", "3", "-", "x"}

Inputs == UNION {[1..n -> InputChars] : n \in 0..MaxInputLen}

RECURSIVE Decimal(_)
Decimal(s) ==
    IF s = <<>> THEN 0
    ELSE 10 * Decimal(SubSeq(s, 1, Len(s) - 1)) + DigitVal(s[Len(s)])

\* int(text): an optional sign and at least one digit, ValueError otherwise
ParseInt(s) ==
    LET neg  == Len(s) > 0 /\ s[1] = "-"
        body == IF neg THEN Tail(s) ELSE s
        ok   == Len(body) > 0 /\ \A k \in 1..Len(body) : body[k] \in DigitChars
    IN  [ok |-> ok,
         val |-> IF ok THEN (IF neg THEN 0 - Decimal(body) ELSE Decimal(body))
                 ELSE 0]

\* a variant that takes the typed number as the 0-based index
ChoiceNoOffset(s) == ParseInt(s).val

\* line 109: choice = int(input(...)) - 1
Choice(s) == ParseInt(s).val - 1

\* line 110: 0 <= choice < len(folders)
InRange(choice, n) == 0 <= choice /\ choice < n

None == <<"None">>

\* the ids of the k folders a name lookup returns
FolderIds(k) == [j \in 1..k |-> <<"F", Digits[j + 1]>>]

----------------------------------------------------------------------------
(* download_file: mime types, the export table, the extension table.       *)

NativePrefix == "application/vnd.google-apps."

Document == <<NativePrefix, "document">>

Spreadsheet == <<NativePrefix, "spreadsheet">>

Presentation == <<NativePrefix, "presentation">>

Drawing == <<NativePrefix, "drawing">>

Form == <<NativePrefix, "form">>

Pdf == <<"application/", "pdf">>

NoMime == <<"", "">>

Mimes == {Document, Spreadsheet, Presentation, Drawing, Form, Pdf}

Docx == "application/vnd.openxmlformats-officedocument.wordprocessingml.document"

Xlsx == "application/vnd.openxmlformats-officedocument.spreadsheetml.sheet"

Pptx == "application/vnd.openxmlformats-officedocument.presentationml.presentation"

Png == "image/png"

\* line 151: mime_type.startswith('application/vnd.google-apps.')
IsNative(m) == m[1] = NativePrefix

\* a variant whose lookup falls back to a default format
ExportFormatsDefault(m) ==
    CASE m = Document     -> Docx
      [] m = Spreadsheet  -> Xlsx
      [] m = Presentation -> Pptx
      [] m = Drawing      -> Png
      [] OTHER            -> Png

\* lines 152-159: export_formats.get(mime_type)
ExportFormats(m) ==
    CASE m = Document     -> Docx
      [] m = Spreadsheet  -> Xlsx
      [] m = Presentation -> Pptx
      [] m = Drawing      -> Png
      [] OTHER            -> "None"

\* lines 163-169: extensions.get(export_mime_type, '')
Extensions(fmt) ==
    CASE fmt = Docx -> <<".", "d", "o", "c", "x">>
      [] fmt = Xlsx -> <<".", "x", "l", "s", "x">>
      [] fmt = Pptx -> <<".", "p", "p", "t", "x">>
      [] fmt = Png  -> <<".", "p", "n", "g">>
      [] OTHER      -> <<>>

NoRequest == [kind |-> "none", fmt |-> "None"]

\* a variant without the native-document branch
RequestForRaw(m) == [kind |-> "get_media", fmt |-> "None"]

\* lines 151-178: the request download_file builds for a mime type
\* (kind "none": the unsupported native type of lines 173-175)
RequestFor(m) ==
    IF IsNative(m)
    THEN IF ExportFormats(m) # "None"
         THEN [kind |-> "export", fmt |-> ExportFormats(m)]
         ELSE NoRequest
    ELSE [kind |-> "get_media", fmt |-> "None"]

\* lines 170-171: the name after the extension update
ExportName(name, fmt) ==
    IF ~EndsWith(name, Extensions(fmt)) THEN name \o Extensions(fmt) ELSE name

\* lines 170-172: the path after the extension update
ExportPath(path, name, fmt) ==
    IF ~EndsWith(name, Extensions(fmt))
    THEN Join(Dirname(path), name \o Extensions(fmt))
    ELSE path

\* the bytes the service sends for a request on file `id`
Content(id, req) == <<id, req.kind, req.fmt>>

----------------------------------------------------------------------------
(* The inputs and the environment.                                         *)

\* an identifier of the id shape, one of the right length holding a '-',
\* and an alphanumeric one that is one character too long
Identifiers ==
    { Rep("a", CanonLen),
      Rep("a", CanonLen - 1) \o <<"-">>,
      Rep("a", CanonLen + 1) }

LocalPaths == { <<"d">>, <<"p", "/", "d">> }

Names == { <<"r">>, <<"r", ".", "d", "o", "c", "x">>, <<"a", "/", "r">> }

\* the listings of at most MaxFiles children; the id of a child is its
\* position in the listing
Listings ==
    UNION { {[j \in 1..n |-> [id |-> j, name |-> f[j]]] : f \in [1..n -> Names]}
            : n \in 0..MaxFiles }

\* the directories on the way to path p, p included
RECURSIVE Ancestors(_)
Ancestors(p) ==
    IF p = <<>> THEN {} ELSE {p} \cup Ancestors(Dirname(p))

\* directories a destination may already hold: local/a and local/a/a
SubDirs(p) == {Join(p, <<"a">>), Join(p, <<"a", "/", "a">>)}

\* the sets of directories that can exist before the run: closed under parent
DirStates(p) ==
    {D \in SUBSET Ancestors(p) : \A q \in D : Dirname(q) = <<>> \/ Dirname(q) \in D}

\* one more scenario: the destination <<"d">> exists and holds subdirectories
Populated(id, p) ==
    IF id = Rep("a", CanonLen) /\ p = <<"d">>
    THEN {Ancestors(p) \cup SubDirs(p)}
    ELSE {}

----------------------------------------------------------------------------
(* The state after construction: nothing authenticated, nothing called.    *)

Init ==
    /\ pc = "new"
    /\ service = FALSE
    /\ identifier \in Identifiers
    /\ local_path \in LocalPaths
    /\ dirs \in DirStates(local_path) \cup Populated(identifier, local_path)
    /\ disk = <<>>
    /\ folders = <<>>
    /\ shown = <<>>
    /\ last_input = None
    /\ folder_id = None
    /\ files = <<>>
    /\ i = 0
    /\ success_count = 0
    /\ file_name = <<>>
    /\ download_path = <<>>
    /\ mime_type = NoMime
    /\ request = NoRequest
    /\ fh = <<>>
    /\ ret = FALSE
    /\ outcome = "none"
    /\ invoked = <<>>
    /\ outcomes = <<>>
    /\ lookups = 0
    /\ listings = 0
    /\ listed = None
    /\ issued = {}
    /\ exit = "none"
    /\ retval = "unset"

resolverVars == << folders, shown, last_input >>

fileVars == << file_name, download_path, mime_type, request, fh, ret, outcome >>

loopVars == << files, i, success_count, invoked, outcomes >>

fsVars == << dirs, disk >>

inputVars == << identifier, local_path >>

callVars == << lookups, listings, listed, issued >>

\* lines 228, 236, 247, 256, 273: every exit of download_folder is a bare
\* return (or the end of the body), whose value is None
ReturnValue(how) == "None"

Return(how) ==
    /\ pc' = "returned"
    /\ exit' = how
    /\ retval' = ReturnValue(how)

Raise(how) ==
    /\ pc' = "raised"
    /\ exit' = how
    /\ UNCHANGED retval

\* authenticate(), lines 40-82: on success self.service is built
Authenticate ==
    /\ pc = "new"
    /\ ~service
    /\ service' = TRUE
    /\ UNCHANGED << pc, inputVars, fsVars, resolverVars, folder_id, loopVars,
                    fileVars, callVars, exit, retval >>

\* download_folder, lines 212-217
CallDownloadFolder ==
    /\ pc = "new"
    /\ IF ~service
       THEN Raise("not_authenticated")
       ELSE pc' = "mkparent" /\ UNCHANGED << exit, retval >>
    /\ UNCHANGED << service, inputVars, fsVars, resolverVars, folder_id,
                    loopVars, fileVars, callVars >>

\* lines 219-228: create the parent directory when it is named and missing
EnsureParent ==
    /\ pc = "mkparent"
    /\ LET parent_dir == Dirname(local_path)
       IN  IF parent_dir # <<>> /\ parent_dir \notin dirs
           THEN \/ /\ dirs' = dirs \cup Ancestors(parent_dir)
                   /\ pc' = "mktarget"
                   /\ UNCHANGED << exit, retval >>
                \/ /\ Return("parent_failed")
                   /\ UNCHANGED dirs
           ELSE /\ pc' = "mktarget"
                /\ UNCHANGED << dirs, exit, retval >>
    /\ UNCHANGED << service, inputVars, disk, resolverVars, folder_id,
                    loopVars, fileVars, callVars >>

\* a variant whose except branch does not return
EnsureTargetNoReturn ==
    /\ pc = "mktarget"
    /\ pc' = "resolve"
    /\ \/ dirs' = dirs \cup Ancestors(local_path)
       \/ UNCHANGED dirs
    /\ UNCHANGED << service, inputVars, disk, resolverVars, folder_id,
                    loopVars, fileVars, callVars, exit, retval >>

\* lines 230-236: os.makedirs(local_path, exist_ok=True)
EnsureTarget ==
    /\ pc = "mktarget"
    /\ IF local_path \notin dirs
       THEN \/ /\ dirs' = dirs \cup Ancestors(local_path)
               /\ pc' = "resolve"
               /\ UNCHANGED << exit, retval >>
            \/ /\ Return("target_failed")
               /\ UNCHANGED dirs
       ELSE /\ pc' = "resolve"
            /\ UNCHANGED << dirs, exit, retval >>
    /\ UNCHANGED << service, inputVars, disk, resolverVars, folder_id,
                    loopVars, fileVars, callVars >>

\* lines 238-244: an identifier of the id shape is the folder id, any other
\* is looked up by name
ResolveFolder ==
    /\ pc = "resolve"
    /\ IF LooksLikeId(identifier)
       THEN folder_id' = identifier /\ pc' = "list"
       ELSE folder_id' = folder_id /\ pc' = "lookup"
    /\ UNCHANGED << service, inputVars, fsVars, resolverVars, loopVars,
                    fileVars, callVars, exit, retval >>

\* get_folder_id, lines 94-105: one files.list request by name; no match
\* returns None, one match returns it, several are printed and asked about
GetFolderId ==
    /\ pc = "lookup"
    /\ lookups' = lookups + 1
    /\ \/ /\ Raise("lookup_error")
          /\ UNCHANGED << resolverVars, folder_id >>
       \/ \E k \in 0..MaxMatches :
            /\ folders' = FolderIds(k)
            /\ IF k = 0
               THEN pc' = "lookup_returned" /\ folder_id' = None /\ shown' = shown
               ELSE IF k = 1
               THEN pc' = "lookup_returned" /\ folder_id' = folders'[1]
                    /\ shown' = shown
               ELSE pc' = "choose" /\ folder_id' = folder_id /\ shown' = folders'
            /\ UNCHANGED << last_input, exit, retval >>
    /\ UNCHANGED << service, inputVars, fsVars, loopVars, fileVars, listings,
                    listed, issued >>

\* get_folder_id, lines 107-115: one pass of the selection loop (a closed
\* standard input, which makes input() raise EOFError, is left out)
ChooseFolder ==
    /\ pc = "choose"
    /\ \E text \in Inputs :
         /\ last_input' = text
         /\ IF ParseInt(text).ok /\ InRange(Choice(text), Len(folders))
            THEN pc' = "lookup_returned" /\ folder_id' = folders[Choice(text) + 1]
            ELSE pc' = "choose" /\ folder_id' = folder_id
    /\ UNCHANGED << service, inputVars, fsVars, folders, shown, loopVars,
                    fileVars, callVars, exit, retval >>

\* lines 244-249: back in download_folder; the resolver's locals are gone
CheckFolder ==
    /\ pc = "lookup_returned"
    /\ folders' = <<>>
    /\ shown' = <<>>
    /\ last_input' = None
    /\ IF folder_id = None
       THEN Return("not_found")
       ELSE pc' = "list" /\ UNCHANGED << exit, retval >>
    /\ UNCHANGED << service, inputVars, fsVars, folder_id, loopVars, fileVars,
                    callVars >>

\* lines 252-261 (list_files_in_folder, lines 127-134): one listing request
ListFiles ==
    /\ pc = "list"
    /\ listings' = listings + 1
    /\ listed' = folder_id
    /\ \/ /\ Raise("list_error")
          /\ UNCHANGED << files, i, success_count >>
       \/ \E fs \in Listings :
            /\ files' = fs
            /\ IF fs = <<>>
               THEN Return("empty") /\ UNCHANGED << i, success_count >>
               ELSE /\ pc' = "loop"
                    /\ i' = 1
                    /\ success_count' = 0
                    /\ UNCHANGED << exit, retval >>
    /\ UNCHANGED << service, inputVars, fsVars, resolverVars, folder_id,
                    invoked, outcomes, fileVars, lookups, issued >>

\* a variant that leaves the loop one child early
LoopDoneEarly == i >= Len(files)

\* line 262: the loop is over when every child has been taken
LoopDone == i > Len(files)

\* lines 262-269: the next child is handed to download_file
CallDownloadFile ==
    /\ pc = "loop"
    /\ ~LoopDone
    /\ file_name' = files[i].name
    /\ download_path' = Join(local_path, files[i].name)
    /\ invoked' = Append(invoked, files[i].id)
    /\ pc' = "meta"
    /\ UNCHANGED << service, inputVars, fsVars, resolverVars, folder_id,
                    files, i, success_count, outcomes, mime_type, request, fh,
                    ret, outcome, callVars, exit, retval >>

\* download_file returns `value` having left by `how`
FileReturn(value, how) ==
    /\ pc' = "file_returned"
    /\ ret' = value
    /\ outcome' = how

\* download_file, lines 145-178 (and 200-202): the fresh metadata read, the
\* choice of request, the extension update
GetMetadata ==
    /\ pc = "meta"
    /\ issued' = issued \cup {"get"}
    /\ \/ /\ FileReturn(FALSE, "Failed")
          /\ UNCHANGED << mime_type, request, file_name, download_path >>
       \/ \E m \in Mimes :
            /\ mime_type' = m
            /\ request' = RequestFor(m)
            /\ IF RequestFor(m).kind = "export"
               THEN /\ file_name' = ExportName(file_name, RequestFor(m).fmt)
                    /\ download_path' =
                         ExportPath(download_path, file_name, RequestFor(m).fmt)
                    /\ pc' = "fetch"
                    /\ UNCHANGED << ret, outcome >>
               ELSE IF RequestFor(m).kind = "none"
               THEN /\ FileReturn(FALSE, "Skipped")
                    /\ UNCHANGED << file_name, download_path >>
               ELSE /\ pc' = "fetch"
                    /\ UNCHANGED << file_name, download_path, ret, outcome >>
    /\ UNCHANGED << service, inputVars, fsVars, resolverVars, folder_id,
                    loopVars, fh, lookups, listings, listed, exit, retval >>

\* lines 180-186 (and 200-202): the request is sent and the whole content
\* is buffered
FetchContent ==
    /\ pc = "fetch"
    /\ issued' = issued \cup {request.kind}
    /\ \/ /\ FileReturn(FALSE, "Failed")
          /\ UNCHANGED fh
       \/ /\ fh' = Content(files[i].id, request)
          /\ pc' = "open"
          /\ UNCHANGED << ret, outcome >>
    /\ UNCHANGED << service, inputVars, fsVars, resolverVars, folder_id,
                    loopVars, file_name, download_path, mime_type, request,
                    lookups, listings, listed, exit, retval >>

\* line 189 (and 200-202): open(download_path, 'wb') creates or truncates the
\* file; it raises when the directory of the path does not exist
OpenFile ==
    /\ pc = "open"
    /\ IF Dirname(download_path) \in dirs /\ download_path \notin dirs
       THEN /\ disk' = [q \in DOMAIN disk \cup {download_path} |->
                          IF q = download_path THEN <<>> ELSE disk[q]]
            /\ pc' = "write"
            /\ UNCHANGED << ret, outcome >>
       ELSE /\ FileReturn(FALSE, "Failed")
            /\ UNCHANGED disk
    /\ UNCHANGED << service, inputVars, dirs, resolverVars, folder_id,
                    loopVars, file_name, download_path, mime_type, request, fh,
                    callVars, exit, retval >>

\* lines 190-198: the buffer is written, the file closed, True returned
\* (a write that fails, as on a full disk, is left out)
WriteFile ==
    /\ pc = "write"
    /\ disk' = [disk EXCEPT ![download_path] = fh]
    /\ FileReturn(TRUE, "Success")
    /\ UNCHANGED << service, inputVars, dirs, resolverVars, folder_id,
                    loopVars, file_name, download_path, mime_type, request, fh,
                    callVars, exit, retval >>

\* a variant that leaves the loop at the first False
AfterFileStop ==
    /\ pc = "file_returned"
    /\ success_count' = IF ret THEN success_count + 1 ELSE success_count
    /\ outcomes' = Append(outcomes, outcome)
    /\ i' = IF ret THEN i + 1 ELSE Len(files) + 1
    /\ pc' = "loop"
    /\ file_name' = <<>>
    /\ download_path' = <<>>
    /\ mime_type' = NoMime
    /\ request' = NoRequest
    /\ fh' = <<>>
    /\ ret' = FALSE
    /\ outcome' = "none"
    /\ UNCHANGED << service, inputVars, fsVars, resolverVars, folder_id,
                    files, invoked, callVars, exit, retval >>

\* lines 269-271 and the loop step: count a True, go to the next child;
\* download_file's locals are gone
AfterFile ==
    /\ pc = "file_returned"
    /\ success_count' = IF ret THEN success_count + 1 ELSE success_count
    /\ outcomes' = Append(outcomes, outcome)
    /\ i' = i + 1
    /\ pc' = "loop"
    /\ file_name' = <<>>
    /\ download_path' = <<>>
    /\ mime_type' = NoMime
    /\ request' = NoRequest
    /\ fh' = <<>>
    /\ ret' = FALSE
    /\ outcome' = "none"
    /\ UNCHANGED << service, inputVars, fsVars, resolverVars, folder_id,
                    files, invoked, callVars, exit, retval >>

\* line 273: the summary, and the end of download_folder
FinishFolder ==
    /\ pc = "loop"
    /\ LoopDone
    /\ Return("complete")
    /\ UNCHANGED << service, inputVars, fsVars, resolverVars, folder_id,
                    loopVars, fileVars, callVars >>

\* the process is terminated from outside: its memory is gone, the
\* filesystem stays as it is
Terminate ==
    /\ pc \notin {"new", "returned", "raised", "killed"}
    /\ pc' = "killed"
    /\ exit' = "killed"
    /\ folders' = <<>>
    /\ shown' = <<>>
    /\ last_input' = None
    /\ folder_id' = None
    /\ files' = <<>>
    /\ i' = 0
    /\ success_count' = 0
    /\ file_name' = <<>>
    /\ download_path' = <<>>
    /\ mime_type' = NoMime
    /\ request' = NoRequest
    /\ fh' = <<>>
    /\ ret' = FALSE
    /\ outcome' = "none"
    /\ invoked' = <<>>
    /\ outcomes' = <<>>
    /\ UNCHANGED << service, inputVars, fsVars, callVars, retval >>

Next ==
    \/ Authenticate
    \/ CallDownloadFolder
    \/ EnsureParent
    \/ EnsureTarget
    \/ ResolveFolder
    \/ GetFolderId
    \/ ChooseFolder
    \/ CheckFolder
    \/ ListFiles
    \/ CallDownloadFile
    \/ GetMetadata
    \/ FetchContent
    \/ OpenFile
    \/ WriteFile
    \/ AfterFile
    \/ FinishFolder
    \/ Terminate

Spec == Init /\ [][Next]_vars

----------------------------------------------------------------------------
(* The properties.  Their vocabulary is written out here, apart from the   *)
(* operators the actions use.                                              *)

\* the identifier has the shape of a folder id
CanonicalShape(s) ==
    Len(s) = 33 /\ \A k \in 1..Len(s) : s[k] \in AlnumChars

\* the mime type is a native-document type
NativeDocument(m) == m[1] = "application/vnd.google-apps."

\* the export table as the specification gives it: format and extension
MappedFormat(m) ==
    CASE m[2] = "document"     -> Docx
      [] m[2] = "spreadsheet"  -> Xlsx
      [] m[2] = "presentation" -> Pptx
      [] m[2] = "drawing"      -> Png

MappedExtension(m) ==
    CASE m[2] = "document"     -> <<".", "d", "o", "c", "x">>
      [] m[2] = "spreadsheet"  -> <<".", "x", "l", "s", "x">>
      [] m[2] = "presentation" -> <<".", "p", "p", "t", "x">>
      [] m[2] = "drawing"      -> <<".", "p", "n", "g">>

Mapped(m) ==
    NativeDocument(m)
    /\ m[2] \in {"document", "spreadsheet", "presentation", "drawing"}

\* download_file is at work on child i, its locals alive
InFile == pc \in {"meta", "fetch", "open", "write", "file_returned"}

\* the folder has been resolved, or the resolution has given up
PastResolution ==
    \/ pc \in {"choose", "lookup_returned", "list", "loop"}
    \/ InFile
    \/ exit \in {"lookup_error", "not_found", "list_error", "empty", "complete"}

Successes == {j \in 1..Len(outcomes) : outcomes[j] = "Success"}

\* file q on disk holds bytes fetched for child number j
HoldsBytesOf(q, j) == disk[q] # <<>> /\ disk[q][1] = files[j].id

----------------------------------------------------------------------------
\* C1: a pass over a listing of N files ends with N files attempted and at
\* most N succeeded, whatever the outcomes; an empty listing ends with
\* nothing attempted and nothing succeeded.
C1_Counts ==
    /\ exit = "complete" =>
         /\ Len(files) >= 1
         /\ Len(invoked) = Len(files)
         /\ Len(outcomes) = Len(files)
         /\ success_count <= Len(files)
         /\ success_count = Cardinality(Successes)
    /\ exit = "empty" =>
         files = <<>> /\ invoked = <<>> /\ success_count = 0

C1_Witness ==
    /\ exit = "complete"
    /\ Len(files) = 2
    /\ outcomes = <<"Skipped", "Success">>
    /\ success_count = 1

\* C2: a file whose fresh mime type is native is never requested or
\* buffered as raw bytes: its request is an export in the mapped format, or
\* there is no request and nothing is buffered or written; get_media is
\* built only for a non-native type.
C2_NativeNeverRaw ==
    /\ request.kind = "get_media" => ~NativeDocument(mime_type)
    /\ (InFile /\ pc # "meta" /\ NativeDocument(mime_type)) =>
         \/ /\ request.kind = "export"
            /\ Mapped(mime_type)
            /\ request.fmt = MappedFormat(mime_type)
            /\ fh \in {<<>>, <<files[i].id, "export", MappedFormat(mime_type)>>}
         \/ /\ request.kind = "none"
            /\ pc = "file_returned"
            /\ outcome = "Skipped"
            /\ fh = <<>>
            /\ \A q \in DOMAIN disk : ~HoldsBytesOf(q, i)

C2_Witness ==
    /\ pc = "file_returned"
    /\ NativeDocument(mime_type)
    /\ outcome = "Success"
    /\ disk[download_path] = <<files[i].id, "export", MappedFormat(mime_type)>>

C4_DirsBeforeRemote ==
    /\ (lookups > 0 \/ listings > 0 \/ issued # {}) =>
         /\ local_path \in dirs
         /\ Dirname(local_path) = <<>> \/ Dirname(local_path) \in dirs
    /\ (pc \notin {"new", "mkparent"} /\ exit \notin {"parent_failed", "killed",
                                                     "not_authenticated"}) =>
         Dirname(local_path) = <<>> \/ Dirname(local_path) \in dirs
    /\ exit \in {"parent_failed", "target_failed"} =>
         /\ lookups = 0
         /\ listings = 0
         /\ issued = {}
         /\ invoked = <<>>
         /\ disk = <<>>

C4_Witness ==
    /\ exit = "parent_failed"
    /\ Dirname(local_path) # <<>>
    /\ dirs = {}
    /\ lookups = 0 /\ listings = 0 /\ issued = {}

\* C5: an identifier of the id shape is used as the folder id with no name
\* lookup; any other identifier costs exactly one lookup, whose result is
\* the folder listed.
C5_ResolveOnce ==
    /\ lookups <= 1
    /\ CanonicalShape(identifier) =>
         /\ lookups = 0
         /\ listings > 0 => listed = identifier
    /\ (~CanonicalShape(identifier) /\ PastResolution) =>
         /\ lookups = 1
         /\ listings > 0 =>
              listed \in {FolderIds(MaxMatches)[k] : k \in 1..MaxMatches}
         /\ (listings > 0 /\ pc # "killed") => listed = folder_id
    /\ listings <= 1

C5_Witness ==
    /\ exit = "complete"
    /\ ~CanonicalShape(identifier)
    /\ lookups = 1
    /\ listed = <<"F", "2">>

\* C6: after an external termination, every file that exists under its
\* final name holds its whole content.
C6_NoPartialFile ==
    pc = "killed" => \A q \in DOMAIN disk : disk[q] # <<>>

\* the two directory-creation failures are one outcome
ExitKind(how) ==
    IF how \in {"parent_failed", "target_failed"} THEN "dir_failed" ELSE how

\* C7: the value download_folder returns tells a directory-creation
\* failure, a folder not found, an empty listing and a completed pass apart.
C7_ExitsDistinguishable ==
    pc = "returned" =>
      \A other \in {"parent_failed", "target_failed", "not_found", "empty",
                    "complete"} :
        ExitKind(other) # ExitKind(exit) => ReturnValue(other) # retval

\* C8: a file whose fresh mime type is native and not in the export table
\* leaves download_file as Skipped, not Failed: no request built, nothing
\* buffered or written, the call counted as attempted and not as succeeded.
C8_UnmappedSkipped ==
    /\ (pc = "file_returned" /\ NativeDocument(mime_type) /\ ~Mapped(mime_type)) =>
         /\ outcome = "Skipped"
         /\ ret = FALSE
         /\ request.kind = "none"
         /\ fh = <<>>
         /\ \A q \in DOMAIN disk : ~HoldsBytesOf(q, i)
         /\ Len(invoked) = i
    /\ outcome = "Skipped" => NativeDocument(mime_type) /\ ~Mapped(mime_type)
    /\ (pc = "loop" \/ InFile \/ exit = "complete") =>
         /\ success_count = Cardinality(Successes)
         /\ Len(outcomes) <= Len(invoked)

C8_Witness ==
    /\ pc = "file_returned"
    /\ mime_type = Form
    /\ outcome = "Skipped"
    /\ i = 2
    /\ success_count = 1

\* what the lookup request of get_folder_id must lead to
C9_LookupStep ==
    LET k == Len(folders')
    IN  /\ k = 0 => pc' = "lookup_returned" /\ folder_id' = None
        /\ k = 1 => pc' = "lookup_returned" /\ folder_id' = folders'[1]
        /\ k >= 2 => pc' = "choose" /\ shown' = folders' /\ Len(shown') = k

\* what one line typed at the selection prompt must lead to
C9_ChooseStep ==
    LET typed == ParseInt(last_input')
        k     == Len(folders)
    IN  /\ k >= 2
        /\ shown = folders
        /\ IF typed.ok /\ typed.val \in 1..k
           THEN pc' = "lookup_returned" /\ folder_id' = folders[typed.val]
           ELSE pc' = "choose" /\ folders' = folders /\ shown' = shown

\* C9: a name lookup with no match returns None, with one match returns it,
\* and with k >= 2 matches shows those k and returns only on a line that
\* parses as an integer in 1..k, with the candidate at that position; any
\* other line leaves it asking, the candidates unchanged.
C9_Resolver ==
    [][ /\ (pc = "lookup" /\ pc' \notin {"killed", "raised"}) => C9_LookupStep
        /\ (pc = "choose" /\ pc' # "killed") => C9_ChooseStep ]_vars

C9_Witness ==
    /\ pc = "lookup_returned"
    /\ Len(folders) = 2
    /\ last_input = <<"0", "2">>
    /\ folder_id = folders[2]

\* C10: an exported file is written at the destination directory joined
\* with the remote name, the mapped extension appended unless the name
\* already ends with it.
C10_ExportPath ==
    (pc = "file_returned" /\ outcome = "Success" /\ request.kind = "export") =>
      LET name == files[i].name
          ext  == MappedExtension(mime_type)
          leaf == IF EndsWith(name, ext) THEN name ELSE name \o ext
      IN  /\ Join(local_path, leaf) \in DOMAIN disk
          /\ disk[Join(local_path, leaf)] = fh

====
